---- MODULE Spec2Model ----
(***************************************************************************)
(* The TodoApp client component (src/unnamed/part_000) together with the   *)
(* HTTP API it talks to.  Client state is the component's useState cells   *)
(* and localStorage; every async handler is split at its `await fetch`     *)
(* into a call step (the synchronous prefix, which issues the request and  *)
(* captures the render's closure) and a completion step (the continuation  *)
(* that runs when the response arrives).                                   *)
(*                                                                         *)
(* Text is modelled as a sequence of tokens: "" is << >>, concatenation is *)
(* \o and String.includes is contiguous-subsequence search.                *)
(***************************************************************************)
EXTENDS Integers, Sequences, FiniteSets, Bags, TLC

VARIABLES
    mounted,          \* the useEffect of line 24 has run
    todos,            \* useState<Todo[]>, line 16
    loading,          \* line 17
    summarizing,      \* line 18
    slackWebhookUrl,  \* line 19
    apiError,         \* line 21: << >> is null, <<msg>> is the string msg
    tableExists,      \* line 22
    localStorage,     \* item "slackWebhookUrl": << >> absent, <<url>> present
    store,            \* the server's todos table, in creation order
    nextId,           \* next identifier the store assigns
    inflight,         \* bag of requests awaiting their response
    ev,               \* what the last handler step did (toasts, requests)
    lastFetch,        \* outcome of the most recently completed list fetch
    calls,            \* add, update and delete requests issued so far
    overlapped,       \* two mutation requests have been in flight together
    removed           \* ids a successful delete has removed from the client list

vars == <<mounted, todos, loading, summarizing, slackWebhookUrl, apiError,
          tableExists, localStorage, store, nextId, inflight, ev, lastFetch,
          calls, overlapped, removed>>

-----------------------------------------------------------------------------
(* Bounds *)

MaxCalls == 3        \* add, update and delete requests issued in one session

-----------------------------------------------------------------------------
(* Text *)

EmptyStr == << >>

\* String.prototype.includes
includes(s, sub) ==
    \E i \in 0..(Len(s) - Len(sub)) : SubSeq(s, i + 1, i + Len(sub)) = sub

\* a string used as a condition
truthy(s) == s # EmptyStr

TableMissingPhrase == <<"relation", "\"public.todos\"", "does not exist">>

IsTableMissing_FirstOnly(msg) == includes(msg, TableMissingPhrase)

\* lines 45-47 and 65-67
IsTableMissing(msg) ==
    \/ includes(msg, TableMissingPhrase)
    \/ (includes(msg, <<"relation">>) /\ includes(msg, <<"does not exist">>))

-----------------------------------------------------------------------------
(* Values *)

Null == << >>
Some(x) == <<x>>

Titles == {<<"Write report">>}

Todo(id, title, completed) == [id |-> id, title |-> title, completed |-> completed]

ValidUrl == <<"https:", "//", "hooks.slack.com", "/services/T/B/X">>
MalformedUrl == <<"not-a-url">>
Urls == {EmptyStr, MalformedUrl, ValidUrl}

\* a destination the server accepts: scheme, "//", host
WellFormedUrl(u) ==
    /\ Len(u) >= 3
    /\ u[1] \in {"http:", "https:"}
    /\ u[2] = "//"
    /\ u[3] # ""

Toast(variant, title, description) ==
    [variant |-> variant, title |-> title, description |-> description]

ErrorToast(description) == Toast("destructive", "Error", description)
SuccessToast(description) == Toast("default", "Success", description)

Request(method, path) == [method |-> method, path |-> path]

\* one pending `await fetch(...)`: the handler, its arguments and the values
\* of the render it closed over
Pending(op, id, text, flag, snap) ==
    [op |-> op, id |-> id, text |-> text, flag |-> flag, snap |-> snap]

\* an HTTP exchange as the client sees it: kind is "ok" (response.ok), "http"
\* (a non-success status) or "throw" (fetch rejected); error is the body's
\* error string, data the rest of the body
Resp(kind, status, error, data) ==
    [kind |-> kind, status |-> status, error |-> error, data |-> data]

NoResp == Resp("none", 0, << >>, << >>)

\* one handler step: which handler, its id argument (0 when it has none),
\* "call" or "done", how it ended, the toasts it showed, the requests it
\* issued and the response it consumed
EventOn(op, id, phase, outcome, toasts, issued, resp) ==
    [op |-> op, id |-> id, phase |-> phase, outcome |-> outcome,
     toasts |-> toasts, issued |-> issued, resp |-> resp]

Event(op, phase, outcome, toasts, issued, resp) ==
    EventOn(op, 0, phase, outcome, toasts, issued, resp)

Ids(list) == {list[i].id : i \in 1..Len(list)}

\* Array.prototype.filter
filter(list, keep(_)) == SelectSeq(list, keep)

\* Array.prototype.map
map(list, f(_)) == [i \in 1..Len(list) |-> f(list[i])]

isPending(todo) == ~todo.completed
isCompleted(todo) == todo.completed

\* lines 216-217
pendingTodos == filter(todos, isPending)
completedTodos == filter(todos, isCompleted)

\* lines 219-278: which of the four returns renders
View ==
    IF loading THEN "loading"
    ELSE IF ~tableExists THEN "setup"
    ELSE IF apiError # Null /\ truthy(apiError[1]) THEN "error"
    ELSE "main"

Ops(kind) == {r \in BagToSet(inflight) : r.op = kind}
Mutations == {"addTodo", "updateTodo", "deleteTodo"}
RECURSIVE CountIn(_)
CountIn(S) ==
    IF S = {} THEN 0
    ELSE LET r == CHOOSE x \in S : TRUE
         IN  CopiesIn(r, inflight) + CountIn(S \ {r})
MutationsInFlight == CountIn({r \in BagToSet(inflight) : r.op \in Mutations})

Send(r) == inflight (+) SetToBag({r})
Receive_Resend(r) == inflight

\* the continuation of an `await fetch(...)` consumes its response
Receive(r) == inflight (-) SetToBag({r})

-----------------------------------------------------------------------------
(* Initial state: the component as constructed, before its effect runs *)

\* what the table holds when the page is opened
InitialStores == { << >>, <<Todo(1, <<"Write report">>, FALSE)>> }

Init ==
    /\ mounted = FALSE
    /\ todos = << >>
    /\ loading = TRUE
    /\ summarizing = FALSE
    /\ slackWebhookUrl = EmptyStr
    /\ apiError = Null
    /\ tableExists = TRUE
    /\ localStorage \in {Null, Some(ValidUrl)}
    /\ store \in InitialStores
    /\ nextId = Len(store) + 1
    /\ inflight = EmptyBag
    /\ ev = Event("none", "none", "none", << >>, << >>, NoResp)
    /\ lastFetch = "none"
    /\ calls = 0
    /\ overlapped = FALSE
    /\ removed = {}

-----------------------------------------------------------------------------
(* fetchTodos, lines 34-84 *)

fetchTodosCall_NoLoading(op) ==
    /\ loading' = loading
    /\ apiError' = Null
    /\ inflight' = Send(Pending("fetchTodos", 0, EmptyStr, FALSE, << >>))
    /\ ev' = Event(op, "call", "sent", << >>,
                   <<Request("GET", <<"/api/todos">>)>>, NoResp)

\* lines 35-38: the synchronous prefix up to the await
fetchTodosCall(op) ==
    /\ loading' = TRUE
    /\ apiError' = Null
    /\ inflight' = Send(Pending("fetchTodos", 0, EmptyStr, FALSE, << >>))
    /\ ev' = Event(op, "call", "sent", << >>,
                   <<Request("GET", <<"/api/todos">>)>>, NoResp)

\* lines 24-32
Mount ==
    /\ ~mounted
    /\ mounted' = TRUE
    /\ fetchTodosCall("mount")
    /\ slackWebhookUrl' =
          IF localStorage # Null /\ truthy(localStorage[1])
          THEN localStorage[1] ELSE slackWebhookUrl
    /\ UNCHANGED <<todos, summarizing, tableExists, localStorage, store, nextId,
                   lastFetch, calls, overlapped, removed>>

\* line 268
ClickRefresh ==
    /\ mounted /\ View = "setup"
    /\ fetchTodosCall("fetchTodos")
    /\ UNCHANGED <<mounted, todos, summarizing, slackWebhookUrl, tableExists,
                   localStorage, store, nextId, lastFetch, calls, overlapped, removed>>

\* line 277
ClickRetry ==
    /\ mounted /\ View = "error"
    /\ fetchTodosCall("fetchTodos")
    /\ UNCHANGED <<mounted, todos, summarizing, slackWebhookUrl, tableExists,
                   localStorage, store, nextId, lastFetch, calls, overlapped, removed>>

\* error strings a failed GET /api/todos carries in its body
ListErrorTexts ==
    { TableMissingPhrase,
      <<"relation", "\"todos\"", "does not exist">>,
      <<"column", "does not exist">>,
      <<"relation", "is locked">>,
      <<"connection refused">>,
      EmptyStr }

\* messages of the errors fetch() itself rejects with
NetworkErrorTexts == { <<"Failed to fetch">> }

\* GET /api/todos: the responses the client can receive
\* (data is Some(list) for an array body and Null for any other body)
ListResponses ==
    {Resp("ok", 200, Null, Some(store)), Resp("ok", 200, Null, Null)}
    \cup {Resp("http", 500, Some(e), Null) : e \in ListErrorTexts}
    \cup {Resp("http", 500, Null, Null)}
    \cup {Resp("throw", 0, Some(e), Null) : e \in NetworkErrorTexts}

\* lines 45-47: errorData.error?.includes(...)
BodyIsTableMissing(errorData) ==
    errorData # Null /\ IsTableMissing(errorData[1])

\* line 54: errorData.error || `Server responded with ${response.status}`
ThrownMessage(resp) ==
    IF resp.error # Null /\ truthy(resp.error[1]) THEN resp.error[1]
    ELSE <<"Server responded with", ToString(resp.status)>>

\* lines 49-51 with the finally of line 82
fetchTodosTableMissingReturn(resp) ==
    /\ tableExists' = FALSE
    /\ loading' = FALSE
    /\ lastFetch' = "marker"
    /\ ev' = Event("fetchTodos", "done", "marker", << >>, << >>, resp)
    /\ UNCHANGED <<todos, apiError>>

fetchTodosCatch_NoApiError(resp, errorMessage) ==
    /\ IF IsTableMissing(errorMessage)
       THEN /\ tableExists' = FALSE
            /\ lastFetch' = "marker"
            /\ ev' = Event("fetchTodos", "done", "marker", << >>, << >>, resp)
            /\ UNCHANGED apiError
       ELSE /\ lastFetch' = "generic"
            /\ ev' = Event("fetchTodos", "done", "generic",
                           <<ErrorToast(errorMessage)>>, << >>, resp)
            /\ UNCHANGED <<tableExists, apiError>>
    /\ todos' = << >>
    /\ loading' = FALSE

\* lines 60-83
fetchTodosCatch(resp, errorMessage) ==
    /\ IF IsTableMissing(errorMessage)
       THEN /\ tableExists' = FALSE
            /\ lastFetch' = "marker"
            /\ ev' = Event("fetchTodos", "done", "marker", << >>, << >>, resp)
            /\ UNCHANGED apiError
       ELSE /\ apiError' = Some(errorMessage)
            /\ lastFetch' = "generic"
            /\ ev' = Event("fetchTodos", "done", "generic",
                           <<ErrorToast(errorMessage)>>, << >>, resp)
            /\ UNCHANGED tableExists
    /\ todos' = << >>
    /\ loading' = FALSE

fetchTodosSuccess_KeepTableFlag(resp) ==
    /\ todos' = IF resp.data # Null THEN resp.data[1] ELSE << >>
    /\ loading' = FALSE
    /\ lastFetch' = IF resp.data # Null THEN "ok" ELSE "notarray"
    /\ ev' = Event("fetchTodos", "done", "ok", << >>, << >>, resp)
    /\ UNCHANGED <<apiError, tableExists>>

\* lines 57-59 with the finally of line 82
fetchTodosSuccess(resp) ==
    /\ todos' = IF resp.data # Null THEN resp.data[1] ELSE << >>
    /\ tableExists' = TRUE
    /\ loading' = FALSE
    /\ lastFetch' = IF resp.data # Null THEN "ok" ELSE "notarray"
    /\ ev' = Event("fetchTodos", "done", "ok", << >>, << >>, resp)
    /\ UNCHANGED apiError

\* lines 38-84: the continuation after `await fetch("/api/todos")`
FetchTodosDone ==
    \E r \in Ops("fetchTodos"), resp \in ListResponses :
        /\ inflight' = Receive(r)
        /\ CASE resp.kind = "throw" -> fetchTodosCatch(resp, resp.error[1])
             [] resp.kind = "http" ->
                    IF BodyIsTableMissing(resp.error)
                    THEN fetchTodosTableMissingReturn(resp)
                    ELSE fetchTodosCatch(resp, ThrownMessage(resp))
             [] OTHER -> fetchTodosSuccess(resp)
        /\ UNCHANGED <<mounted, summarizing, slackWebhookUrl, localStorage,
                       store, nextId, calls, overlapped, removed>>

-----------------------------------------------------------------------------
(* The API behind /api/todos and /api/summarize *)

\* POST /api/todos: create(title, description?)
CreateResponses(title) ==
    (IF title # EmptyStr
     THEN {Resp("ok", 200, Null, Some(Todo(nextId, title, FALSE)))}
     ELSE {Resp("http", 400, Some(<<"Title is required">>), Null)})
    \cup {Resp("http", 500, Some(<<"connection refused">>), Null)}
    \cup {Resp("throw", 0, Some(e), Null) : e \in NetworkErrorTexts}

\* PATCH /api/todos/{id}: update(id, partialFields)
UpdateResponses(id, completed) ==
    (IF id \in Ids(store)
     THEN LET old == CHOOSE t \in {store[i] : i \in 1..Len(store)} : t.id = id
          IN  {Resp("ok", 200, Null, Some(Todo(id, old.title, completed)))}
     ELSE {Resp("http", 404, Some(<<"Todo not found">>), Null)})
    \cup {Resp("http", 500, Some(<<"connection refused">>), Null)}
    \cup {Resp("throw", 0, Some(e), Null) : e \in NetworkErrorTexts}

\* DELETE /api/todos/{id}: delete(id)
DeleteResponses(id) ==
    (IF id \in Ids(store)
     THEN {Resp("ok", 200, Null, Null)}
     ELSE {Resp("http", 404, Some(<<"Todo not found">>), Null)})
    \cup {Resp("http", 500, Some(<<"connection refused">>), Null)}
    \cup {Resp("throw", 0, Some(e), Null) : e \in NetworkErrorTexts}

\* the table after the request answered by resp
StoreAfter(op, id, resp) ==
    IF resp.kind # "ok" THEN store
    ELSE CASE op = "addTodo" -> Append(store, resp.data[1])
           [] op = "updateTodo" ->
                  [i \in 1..Len(store) |->
                      IF store[i].id = id THEN resp.data[1] ELSE store[i]]
           [] op = "deleteTodo" ->
                  LET keep(t) == t.id # id IN filter(store, keep)
           [] OTHER -> store

-----------------------------------------------------------------------------
(* addTodo, lines 86-114 *)

\* TodoForm's onSubmit, line 286, up to the await of line 88
AddTodoCall ==
    \E title \in Titles \cup {EmptyStr} :
        /\ mounted /\ View = "main"
        /\ calls < MaxCalls
        /\ calls' = calls + 1
        /\ inflight' = Send(Pending("addTodo", 0, title, FALSE, todos))
        /\ overlapped' = (overlapped \/ MutationsInFlight > 0)
        /\ ev' = Event("addTodo", "call", "sent", << >>,
                       <<Request("POST", <<"/api/todos">>)>>, NoResp)
        /\ UNCHANGED <<mounted, todos, loading, summarizing, slackWebhookUrl,
                       apiError, tableExists, localStorage, store, nextId,
                       lastFetch, removed>>

addTodoResult_Append(snap, newTodo) == snap \o <<newTodo>>

\* lines 100-101: setTodos([newTodo, ...todos]) with the closure's todos
addTodoResult(snap, newTodo) == <<newTodo>> \o snap

\* lines 96-113
AddTodoDone ==
    \E r \in Ops("addTodo") : \E resp \in CreateResponses(r.text) :
        /\ inflight' = Receive(r)
        /\ store' = StoreAfter("addTodo", 0, resp)
        /\ nextId' = IF resp.kind = "ok" THEN nextId + 1 ELSE nextId
        /\ IF resp.kind = "ok"
           THEN /\ todos' = addTodoResult(r.snap, resp.data[1])
                /\ ev' = Event("addTodo", "done", "ok",
                               <<SuccessToast(<<"Todo added successfully">>)>>,
                               << >>, resp)
           ELSE /\ todos' = todos
                /\ ev' = Event("addTodo", "done", "error",
                               <<ErrorToast(<<"Failed to add todo. Please try again.">>)>>,
                               << >>, resp)
        /\ UNCHANGED <<mounted, loading, summarizing, slackWebhookUrl, apiError,
                       tableExists, localStorage, lastFetch, calls, overlapped, removed>>

-----------------------------------------------------------------------------
(* updateTodo, lines 116-144 *)

\* TodoList's onUpdate, lines 339 and 343, up to the await of line 118
UpdateTodoCall ==
    \E id \in Ids(todos), completed \in BOOLEAN :
        /\ mounted /\ View = "main"
        /\ calls < MaxCalls
        /\ calls' = calls + 1
        /\ inflight' = Send(Pending("updateTodo", id, EmptyStr, completed, todos))
        /\ overlapped' = (overlapped \/ MutationsInFlight > 0)
        /\ ev' = EventOn("updateTodo", id, "call", "sent", << >>,
                       <<Request("PATCH", <<"/api/todos/", ToString(id)>>)>>, NoResp)
        /\ UNCHANGED <<mounted, todos, loading, summarizing, slackWebhookUrl,
                       apiError, tableExists, localStorage, store, nextId,
                       lastFetch, removed>>

updateTodoResult_ReplaceAll(snap, id, updatedTodo) ==
    [i \in 1..Len(snap) |-> updatedTodo]

\* lines 130-131: setTodos(todos.map(...)) with the closure's todos
updateTodoResult(snap, id, updatedTodo) ==
    LET replace(todo) == IF todo.id = id THEN updatedTodo ELSE todo
    IN  map(snap, replace)

\* lines 126-143
UpdateTodoDone ==
    \E r \in Ops("updateTodo") : \E resp \in UpdateResponses(r.id, r.flag) :
        /\ inflight' = Receive(r)
        /\ store' = StoreAfter("updateTodo", r.id, resp)
        /\ IF resp.kind = "ok"
           THEN /\ todos' = updateTodoResult(r.snap, r.id, resp.data[1])
                /\ ev' = EventOn("updateTodo", r.id, "done", "ok",
                               <<SuccessToast(<<"Todo updated successfully">>)>>,
                               << >>, resp)
           ELSE /\ todos' = todos
                /\ ev' = EventOn("updateTodo", r.id, "done", "error",
                               <<ErrorToast(<<"Failed to update todo. Please try again.">>)>>,
                               << >>, resp)
        /\ UNCHANGED <<mounted, loading, summarizing, slackWebhookUrl, apiError,
                       tableExists, localStorage, nextId, lastFetch, calls, overlapped,
                       removed>>

-----------------------------------------------------------------------------
(* deleteTodo, lines 146-169 *)

\* TodoList's onDelete, lines 339 and 343, up to the await of line 148
DeleteTodoCall ==
    \E id \in Ids(todos) :
        /\ mounted /\ View = "main"
        /\ calls < MaxCalls
        /\ calls' = calls + 1
        /\ inflight' = Send(Pending("deleteTodo", id, EmptyStr, FALSE, todos))
        /\ overlapped' = (overlapped \/ MutationsInFlight > 0)
        /\ ev' = EventOn("deleteTodo", id, "call", "sent", << >>,
                       <<Request("DELETE", <<"/api/todos/", ToString(id)>>)>>, NoResp)
        /\ UNCHANGED <<mounted, todos, loading, summarizing, slackWebhookUrl,
                       apiError, tableExists, localStorage, store, nextId,
                       lastFetch, removed>>

\* line 156: setTodos(todos.filter(...)) with the closure's todos
deleteTodoResult(snap, id) ==
    LET keep(todo) == todo.id # id
    IN  filter(snap, keep)

DeleteTodoDone_RemoveAnyway ==
    \E r \in Ops("deleteTodo") : \E resp \in DeleteResponses(r.id) :
        /\ inflight' = Receive(r)
        /\ store' = StoreAfter("deleteTodo", r.id, resp)
        /\ todos' = deleteTodoResult(r.snap, r.id)
        /\ IF resp.kind = "ok"
           THEN /\ removed' = removed \cup {r.id}
                /\ ev' = EventOn("deleteTodo", r.id, "done", "ok",
                               <<SuccessToast(<<"Todo deleted successfully">>)>>,
                               << >>, resp)
           ELSE /\ removed' = removed
                /\ ev' = EventOn("deleteTodo", r.id, "done", "error",
                               <<ErrorToast(<<"Failed to delete todo. Please try again.">>)>>,
                               << >>, resp)
        /\ UNCHANGED <<mounted, loading, summarizing, slackWebhookUrl, apiError,
                       tableExists, localStorage, nextId, lastFetch, calls, overlapped>>

\* lines 152-168
DeleteTodoDone ==
    \E r \in Ops("deleteTodo") : \E resp \in DeleteResponses(r.id) :
        /\ inflight' = Receive(r)
        /\ store' = StoreAfter("deleteTodo", r.id, resp)
        /\ IF resp.kind = "ok"
           THEN /\ todos' = deleteTodoResult(r.snap, r.id)
                /\ removed' = removed \cup {r.id}
                /\ ev' = EventOn("deleteTodo", r.id, "done", "ok",
                               <<SuccessToast(<<"Todo deleted successfully">>)>>,
                               << >>, resp)
           ELSE /\ todos' = todos
                /\ removed' = removed
                /\ ev' = EventOn("deleteTodo", r.id, "done", "error",
                               <<ErrorToast(<<"Failed to delete todo. Please try again.">>)>>,
                               << >>, resp)
        /\ UNCHANGED <<mounted, loading, summarizing, slackWebhookUrl, apiError,
                       tableExists, localStorage, nextId, lastFetch, calls, overlapped>>

-----------------------------------------------------------------------------
(* summarizeAndSendToSlack, lines 171-214 *)

\* line 302
TypeWebhookUrl ==
    \E url \in Urls \ {slackWebhookUrl} :
        /\ mounted /\ View = "main"
        /\ slackWebhookUrl' = url
        /\ ev' = Event("setSlackWebhookUrl", "call", "none", << >>, << >>, NoResp)
        /\ UNCHANGED <<mounted, todos, loading, summarizing, apiError, tableExists,
                       localStorage, store, nextId, inflight, lastFetch,
                       calls, overlapped, removed>>

SummarizeDisabled_IgnorePending == summarizing

SummarizeDisabled_IgnoreSummarizing == Len(pendingTodos) = 0

\* line 305: the button's disabled attribute
SummarizeDisabled == summarizing \/ Len(pendingTodos) = 0

summarizeRejectEmptyUrl_SaveFirst ==
    /\ localStorage' = Some(slackWebhookUrl)
    /\ ev' = Event("summarizeAndSendToSlack", "call", "rejected",
                   <<ErrorToast(<<"Please enter a Slack webhook URL">>)>>,
                   << >>, NoResp)
    /\ UNCHANGED <<summarizing, inflight>>

\* lines 172-179
summarizeRejectEmptyUrl ==
    /\ ev' = Event("summarizeAndSendToSlack", "call", "rejected",
                   <<ErrorToast(<<"Please enter a Slack webhook URL">>)>>,
                   << >>, NoResp)
    /\ UNCHANGED <<localStorage, summarizing, inflight>>

\* lines 181-192
summarizeSend ==
    /\ localStorage' = Some(slackWebhookUrl)
    /\ summarizing' = TRUE
    /\ inflight' = Send(Pending("summarize", 0, slackWebhookUrl, FALSE, << >>))
    /\ ev' = Event("summarizeAndSendToSlack", "call", "sent", << >>,
                   <<Request("POST", <<"/api/summarize">>)>>, NoResp)

\* line 305 onClick, lines 171-192
SummarizeCall ==
    /\ mounted /\ View = "main"
    /\ ~SummarizeDisabled
    /\ IF ~truthy(slackWebhookUrl) THEN summarizeRejectEmptyUrl ELSE summarizeSend
    /\ UNCHANGED <<mounted, todos, loading, slackWebhookUrl, apiError,
                   tableExists, store, nextId, lastFetch, calls, overlapped, removed>>

\* POST /api/summarize: the orchestration entry point
SummarizeResponses(url) ==
    LET incomplete == LET open(t) == ~t.completed IN filter(store, open) IN
    IF ~WellFormedUrl(url)
    THEN {Resp("http", 400, Some(<<"Invalid Slack webhook URL">>), Null)}
    ELSE IF incomplete = << >>
    THEN {Resp("http", 400, Some(<<"No pending todos to summarize">>), Null)}
    ELSE {Resp("ok", 200, Null, Some(Len(incomplete))),
          Resp("http", 500, Some(<<"Failed to generate summary">>), Null),
          Resp("http", 500, Some(<<"Slack responded with", "404">>), Null)}

summarizeErrorMessage_Fixed(resp) == <<"Failed to summarize todos">>

\* line 197: data.error || "Failed to summarize todos"; line 208 for a
\* rejected fetch
summarizeErrorMessage(resp) ==
    IF resp.kind = "throw" THEN resp.error[1]
    ELSE IF resp.error # Null /\ truthy(resp.error[1]) THEN resp.error[1]
    ELSE <<"Failed to summarize todos">>

\* lines 194-213
SummarizeDone ==
    \E r \in Ops("summarize") :
      \E resp \in SummarizeResponses(r.text)
                  \cup {Resp("throw", 0, Some(e), Null) : e \in NetworkErrorTexts} :
        /\ inflight' = Receive(r)
        /\ IF resp.kind = "ok"
           THEN ev' = Event("summarizeAndSendToSlack", "done", "ok",
                            <<SuccessToast(<<"Summary of", ToString(resp.data[1]),
                                             "todos sent to Slack successfully!">>)>>,
                            << >>, resp)
           ELSE ev' = Event("summarizeAndSendToSlack", "done", "error",
                            <<ErrorToast(summarizeErrorMessage(resp))>>, << >>, resp)
        /\ summarizing' = FALSE
        /\ UNCHANGED <<mounted, todos, loading, slackWebhookUrl, apiError,
                       tableExists, localStorage, store, nextId, lastFetch,
                       calls, overlapped, removed>>

-----------------------------------------------------------------------------

Next ==
    \/ Mount
    \/ ClickRefresh
    \/ ClickRetry
    \/ FetchTodosDone
    \/ AddTodoCall
    \/ AddTodoDone
    \/ UpdateTodoCall
    \/ UpdateTodoDone
    \/ DeleteTodoCall
    \/ DeleteTodoDone
    \/ TypeWebhookUrl
    \/ SummarizeCall
    \/ SummarizeDone

Spec == Init /\ [][Next]_vars

-----------------------------------------------------------------------------
(* Properties *)

InFlight == BagCardinality(inflight)

SummarizeStep(e) == e.op = "summarizeAndSendToSlack"
PostsSummarize(e) ==
    \E i \in 1..Len(e.issued) :
        e.issued[i] = Request("POST", <<"/api/summarize">>)

\* C1: while the client's list holds no task with completed = false the
\* summarize trigger is disabled, and no step taken from such a state issues
\* POST /api/summarize.
C1_NoSummarizeWithoutPending ==
    /\ [](View = "main" /\ Len(pendingTodos) = 0 => SummarizeDisabled)
    /\ [][Len(pendingTodos) = 0 =>
            /\ ~PostsSummarize(ev')
            /\ Ops("summarize")' \subseteq Ops("summarize")]_vars

\* the only pending task has just been marked complete by a successful update
C1_Witness ==
    /\ ev.op = "updateTodo" /\ ev.phase = "done" /\ ev.outcome = "ok"
    /\ ev.resp.data[1].completed
    /\ Len(todos) > 0 /\ Len(pendingTodos) = 0
    /\ View = "main" /\ ~summarizing /\ truthy(slackWebhookUrl)

\* C2: summarizeAndSendToSlack called with an empty webhook URL issues no
\* request, shows exactly one error message and leaves summarizing = false
\* and localStorage, todos, tableExists and apiError unchanged.
C2_EmptyUrlRejected ==
    [][(SummarizeStep(ev') /\ ev'.phase = "call" /\ slackWebhookUrl = EmptyStr) =>
          /\ ev'.issued = << >>
          /\ inflight' = inflight
          /\ Len(ev'.toasts) = 1
          /\ ev'.toasts[1].variant = "destructive"
          /\ summarizing' = FALSE
          /\ UNCHANGED <<localStorage, todos, tableExists, apiError>>]_vars

\* the trigger was enabled and pressed with an empty URL while one is stored
C2_Witness ==
    /\ SummarizeStep(ev) /\ ev.phase = "call" /\ ev.outcome = "rejected"
    /\ slackWebhookUrl = EmptyStr
    /\ localStorage = Some(ValidUrl)

\* C3: summarizeAndSendToSlack called with a non-empty malformed webhook URL
\* issues no HTTP request.
C3_MalformedUrlRejected ==
    [][(SummarizeStep(ev') /\ ev'.phase = "call"
          /\ truthy(slackWebhookUrl) /\ ~WellFormedUrl(slackWebhookUrl)) =>
          /\ ev'.issued = << >>
          /\ inflight' = inflight]_vars

HasMarker(text) ==
    includes(text, <<"relation">>) /\ includes(text, <<"does not exist">>)

\* C4: a list fetch that completes with a non-success response whose error
\* text contains "relation" and "does not exist" ends in the setup-required
\* state: tableExists = false, loading = false, apiError = null, no toast.
C4_MarkerGivesSetupRequired ==
    (/\ ev.op = "fetchTodos" /\ ev.phase = "done"
     /\ ev.resp.kind = "http" /\ ev.resp.error # Null
     /\ HasMarker(ev.resp.error[1]))
    => /\ tableExists = FALSE
       /\ loading = FALSE
       /\ apiError = Null
       /\ ev.toasts = << >>
       /\ View = "setup"

\* the marker arrived in a text other than the exact Postgres phrase
C4_Witness ==
    /\ ev.op = "fetchTodos" /\ ev.phase = "done" /\ ev.resp.kind = "http"
    /\ ev.resp.error = Some(<<"relation", "\"todos\"", "does not exist">>)
    /\ View = "setup"

\* C5: once a list fetch has completed, the setup-required view is shown
\* exactly when the most recently completed fetch failed with the marker; the
\* generic error view when it failed without the marker; the main view when
\* it succeeded.
C5_ViewFollowsLastFetch ==
    (mounted /\ ~loading) =>
        /\ (View = "setup") <=> (lastFetch = "marker")
        /\ (lastFetch = "generic") => (View = "error")
        /\ (lastFetch \in {"ok", "notarray"}) => (View = "main")

\* C6: every handler step issues at most one request, only a user-triggered
\* call step issues one, and the step that consumes a response (failed or
\* not) issues none.
C6_NoAutomaticRetry ==
    [][/\ InFlight' <= InFlight + 1
       /\ Len(ev'.issued) <= 1
       /\ (ev'.phase = "done" =>
              /\ ev'.issued = << >>
              /\ InFlight' = InFlight - 1)
       /\ (ev'.phase = "call" => InFlight' = InFlight + Len(ev'.issued))]_vars

\* a request has failed and nothing is left in flight
C6_Witness ==
    /\ ev.phase = "done" /\ ev.outcome = "error" /\ ev.resp.kind = "http"
    /\ inflight = EmptyBag

\* C7: the step that consumes the response of a summarize request shows
\* exactly one message: for a success response a success message carrying the
\* server's todoCount, for a non-success response an error message whose text
\* is the server's error string; and it leaves summarizing = false.
C7_OneOutcome ==
    (SummarizeStep(ev) /\ ev.phase = "done" /\ ev.resp.kind \in {"ok", "http"})
    => /\ Len(ev.toasts) = 1
       /\ summarizing = FALSE
       /\ ev.resp.kind = "ok" =>
              /\ ev.toasts[1].variant = "default"
              /\ ev.toasts[1].description =
                    <<"Summary of", ToString(ev.resp.data[1]),
                      "todos sent to Slack successfully!">>
       /\ ev.resp.kind = "http" =>
              /\ ev.toasts[1].variant = "destructive"
              /\ ev.resp.error = Some(ev.toasts[1].description)

\* a summarize request was answered with a non-success status
C7_Witness ==
    /\ SummarizeStep(ev) /\ ev.phase = "done"
    /\ ev.resp.kind = "http" /\ ev.resp.status = 500

\* C8: a task whose delete has succeeded and which the client has removed
\* from its list is never in the client's list again.
C8_DeletedStaysDeleted == removed \cap Ids(todos) = {}

Records(list) == {list[i] : i \in 1..Len(list)}

SameTasks(list, table) ==
    /\ Len(list) = Len(table)
    /\ Records(list) = Records(table)

\* C9: after a successful initial fetch, whenever no request is in flight the
\* client's list holds exactly the store's tasks with the store's values.
C9_ListMatchesStore ==
    (lastFetch = "ok" /\ inflight = EmptyBag) => SameTasks(todos, store)

\* C10: with at most one mutation in flight at a time, the client's list
\* equals the store after every completed mutation; a successful add puts the
\* returned task at the head of the previous list, a successful update
\* replaces exactly the entry with that id, a successful delete removes
\* exactly the entry with that id.
C10_SequentialMatchesStore ==
    /\ []((lastFetch = "ok" /\ ~overlapped /\ MutationsInFlight = 0)
            => SameTasks(todos, store))
    /\ [][(~overlapped' /\ ev'.phase = "done" /\ ev'.outcome = "ok") =>
            /\ ev'.op = "addTodo" => todos' = <<ev'.resp.data[1]>> \o todos
            /\ ev'.op = "updateTodo" =>
                  todos' = [i \in 1..Len(todos) |->
                              IF todos[i].id = ev'.id THEN ev'.resp.data[1]
                              ELSE todos[i]]
            /\ ev'.op = "deleteTodo" =>
                  /\ Ids(todos') = Ids(todos) \ {ev'.id}
                  /\ \A i \in 1..Len(todos') :
                        \E j \in i..Len(todos) : todos'[i] = todos[j]
                  /\ Len(todos') = Len(todos) - 1]_vars

\* three mutations, one after the other, the last a successful delete
C10_Witness ==
    /\ ~overlapped /\ calls = MaxCalls /\ MutationsInFlight = 0
    /\ ev.op = "deleteTodo" /\ ev.phase = "done" /\ ev.outcome = "ok"
    /\ Len(todos) > 0

\* C11: the step that consumes a failed add, update or delete (a non-success
\* response or a rejected request) leaves todos, tableExists, apiError and
\* loading unchanged and shows exactly one message, an error message.
C11_FailedMutationChangesNothing ==
    [][(/\ ev'.op \in Mutations /\ ev'.phase = "done"
        /\ ev'.resp.kind \in {"http", "throw"}) =>
          /\ UNCHANGED <<todos, tableExists, apiError, loading>>
          /\ Len(ev'.toasts) = 1
          /\ ev'.toasts[1].variant = "destructive"
          /\ ev'.toasts[1].title = "Error"]_vars

\* a delete of a task still in the list was refused while another mutation
\* was awaiting its response
C11_Witness ==
    /\ ev.op = "deleteTodo" /\ ev.phase = "done" /\ ev.resp.kind = "http"
    /\ ev.id \in Ids(todos)
    /\ MutationsInFlight > 0

\* the error text of a failed list fetch carries the relation-not-found marker
FetchFailedWithMarker(resp) ==
    /\ resp.kind \in {"http", "throw"}
    /\ resp.error # Null
    /\ HasMarker(resp.error[1])

\* C12: after a list fetch has failed (non-success response or rejected
\* request) with an error that does not carry the marker, apiError is the
\* error message, exactly one error toast was shown, with that message, todos
\* is empty and loading = false.
C12_GenericFetchFailure ==
    (/\ ev.op = "fetchTodos" /\ ev.phase = "done"
     /\ ev.resp.kind \in {"http", "throw"}
     /\ ~FetchFailedWithMarker(ev.resp))
    => /\ apiError # Null
       /\ (ev.resp.error # Null /\ truthy(ev.resp.error[1]))
             => apiError = ev.resp.error
       /\ (ev.resp.error = Null \/ ~truthy(ev.resp.error[1]))
             => apiError = Some(<<"Server responded with",
                                  ToString(ev.resp.status)>>)
       /\ Len(ev.toasts) = 1
       /\ ev.toasts[1].variant = "destructive"
       /\ Some(ev.toasts[1].description) = apiError
       /\ todos = << >>
       /\ loading = FALSE

\* a retried fetch failed with a text holding only one of the two markers
C12_Witness ==
    /\ ev.op = "fetchTodos" /\ ev.phase = "done" /\ ev.resp.kind = "http"
    /\ ev.resp.error = Some(<<"column", "does not exist">>)
    /\ View = "error"

\* C13: after a list fetch has completed successfully, todos is the returned
\* array (the empty list when the body is not an array), tableExists = true,
\* apiError = null and loading = false, so the main view is shown.
C13_SuccessfulFetchRecovers ==
    (ev.op = "fetchTodos" /\ ev.phase = "done" /\ ev.resp.kind = "ok")
    => /\ todos = (IF ev.resp.data # Null THEN ev.resp.data[1] ELSE << >>)
       /\ ev.resp.data # Null => todos = store
       /\ tableExists = TRUE
       /\ apiError = Null
       /\ loading = FALSE
       /\ View = "main"
       /\ ev.toasts = << >>

\* a fetch returned the stored task and the main view is back
C13_Witness ==
    /\ ev.op = "fetchTodos" /\ ev.phase = "done" /\ ev.resp.kind = "ok"
    /\ Len(todos) = 1 /\ todos = store
    /\ View = "main" /\ ~SummarizeDisabled

\* C14: the client's list never holds two entries with the same id.
C14_UniqueIds == Cardinality(Ids(todos)) = Len(todos)

\* two tasks in the list after mutations that were in flight together
C14_Witness ==
    /\ overlapped /\ Len(todos) = 2 /\ inflight = EmptyBag
    /\ ev.op = "updateTodo" /\ ev.phase = "done" /\ ev.outcome = "ok"

Position(list, id) == CHOOSE i \in 1..Len(list) : list[i].id = id

\* C15: the step that consumes a successful update of task id keeps the
\* list's length and order, leaves every entry with another id unchanged,
\* puts the task in exactly one tab, the one of its new completed value, and
\* changes nothing when id is not in the list or when the list already holds
\* the returned record (the same update applied a second time).
C15_UpdateTouchesOneTask ==
    [][(ev'.op = "updateTodo" /\ ev'.phase = "done" /\ ev'.outcome = "ok") =>
          /\ Len(todos') = Len(todos)
          /\ \A i \in 1..Len(todos) :
                IF todos[i].id = ev'.id
                THEN todos'[i] = ev'.resp.data[1]
                ELSE todos'[i] = todos[i]
          /\ ev'.id \notin Ids(todos) => todos' = todos
          /\ (/\ ev'.id \in Ids(todos)
              /\ todos[Position(todos, ev'.id)] = ev'.resp.data[1]) => todos' = todos
          /\ ev'.id \in Ids(todos) =>
                (ev'.id \in Ids(pendingTodos')) # (ev'.id \in Ids(completedTodos'))
         ]_vars

SummarizeInFlight == CountIn(Ops("summarize"))
FetchInFlight == CountIn(Ops("fetchTodos"))

\* C16: at most one summarize request is in flight; summarizing is true
\* exactly while one is; the trigger is disabled while summarizing is true;
\* and a summarize request leaves flight only through the step that consumes
\* its response.
C16_OneSummarizeAtATime ==
    /\ []((SummarizeInFlight <= 1)
          /\ (summarizing <=> (SummarizeInFlight = 1))
          /\ (summarizing => SummarizeDisabled))
    /\ [][(SummarizeInFlight' < SummarizeInFlight) =>
             (/\ SummarizeStep(ev') /\ ev'.phase = "done"
              /\ ev'.resp.kind \in {"ok", "http", "throw"})]_vars

\* a mutation completed, leaving a pending task, while a summarize request
\* was outstanding
C16_Witness ==
    /\ summarizing /\ SummarizeInFlight = 1
    /\ ev.op = "addTodo" /\ ev.phase = "done" /\ ev.outcome = "ok"
    /\ Len(pendingTodos) > 0 /\ truthy(slackWebhookUrl)

\* C17: once mounted, loading is true exactly while a list fetch is in flight;
\* at most one is; the step that consumes its response sets loading to false
\* whatever the outcome; and while loading is true no handler can be called,
\* so no request of any kind overlaps a list fetch.
C17_FetchIsExclusive ==
    /\ []((FetchInFlight <= 1)
          /\ (mounted => (loading <=> (FetchInFlight = 1)))
          /\ ((FetchInFlight = 1) => (View = "loading" /\ InFlight = 1)))
    /\ [][((mounted /\ loading) =>
              (ev'.op = "fetchTodos" /\ ev'.phase = "done" /\ ~loading'))
          /\ ((ev'.op = "fetchTodos" /\ ev'.phase = "done") => ~loading')]_vars

\* a retried fetch is outstanding after a generic failure
C17_Witness ==
    /\ mounted /\ loading /\ FetchInFlight = 1
    /\ lastFetch = "generic" /\ ev.op = "fetchTodos" /\ ev.phase = "call"

====
